---- MODULE Spec2Model ----
(***************************************************************************)
(* A model of the utility scripts of the repository: format_file_size,     *)
(* create_summary_report, calculate_file_hash and backup_file of utils.py  *)
(* and setup_logger of logger.py.  The functions are independent of each   *)
(* other (no shared state), so each has a specification of its own over    *)
(* the variables it uses; the variables of the other functions stay idle.  *)
(***************************************************************************)
EXTENDS Integers, Sequences, FiniteSets, TLC

VARIABLES
    fmtPc,      \* format_file_size: "call" before the call, "done" after it
    fmtIn,      \* format_file_size: the argument size_bytes (base-1024 digits)
    fmtOut,     \* format_file_size: the returned string (number and unit)
    sumPc,      \* create_summary_report: "start", "walk", "done" or "raised"
    tree,       \* the files under the directory: records [dir, name, size]
    stack,      \* os.walk: the directories still to list, next one first
    curDir,     \* os.walk: the directory yielded last (root of the loop body)
    queue,      \* the files of curDir the inner loop has not reached yet
    stats,      \* the stats dictionary
    visited,    \* history: the visible files tallied, in order, with the size used
    skipped,    \* history: the directories whose listing failed with an OSError
    statFailed, \* history: the files whose os.path.getsize failed with an OSError
    hPc,        \* calculate_file_hash: "new", "open", "read", "digest", "ret", "changed"
    hKind,      \* what filepath names: see PathKinds
    hContent,   \* the bytes of the file filepath names
    hAlg,       \* the algorithm argument
    hObj,       \* hash_obj: the bytes it has been updated with
    hPos,       \* the read position of f
    hOpen,      \* whether f is open
    hResults,   \* the results of the calls made so far
    hModified,  \* history: the file was written between the calls
    bPc,        \* backup_file: "makedirs", "open_src", "open_dst", "copy", "ret"
    bPath,      \* the filepath argument, a sequence of characters
    bSrcKind,   \* what filepath names: see PathKinds
    bSrcData,   \* the bytes of the file filepath names
    bDir,       \* what backup_dir names: see BackupDirKinds
    bFiles,     \* the files in backup_dir: name -> bytes
    bNow,       \* the clock: what datetime.now() returns
    bDiskFull,  \* whether the disk is too full to hold the copy
    bBakName,   \* the file name of backup_path
    bExc,       \* history: the exception a step of the call raised, "" if none
    bResult,    \* what the call returned: "True", "False", or "raised"
    lLoggers,   \* the logging module's loggers: name -> [level, handlers]
    lLogsDir,   \* what 'logs' names: "absent", "directory" or "file"
    lToday,     \* the date datetime.now() gives
    lFiles,     \* the log files: date -> the lines written
    lConsole,   \* the lines written to the console
    lSetups,    \* history: the number of calls of setup_logger
    lLogged,    \* history: the messages logged: [id, name, level, enabled]
    lRaised     \* history: a call of setup_logger raised

fmtVars == <<fmtPc, fmtIn, fmtOut>>
sumVars == <<sumPc, tree, stack, curDir, queue, stats, visited, skipped, statFailed>>
hashVars == <<hPc, hKind, hContent, hAlg, hObj, hPos, hOpen, hResults, hModified>>
bakVars == <<bPc, bPath, bSrcKind, bSrcData, bDir, bFiles, bNow, bDiskFull,
             bBakName, bExc, bResult>>
logVars == <<lLoggers, lLogsDir, lToday, lFiles, lConsole, lSetups, lLogged, lRaised>>
vars == <<fmtVars, sumVars, hashVars, bakVars, logVars>>

\* what a function leaves alone: the variables of the other functions
notFmtVars == <<sumVars, hashVars, bakVars, logVars>>
notSumVars == <<fmtVars, hashVars, bakVars, logVars>>
notHashVars == <<fmtVars, sumVars, bakVars, logVars>>
notBakVars == <<fmtVars, sumVars, hashVars, logVars>>
notLogVars == <<fmtVars, sumVars, hashVars, bakVars>>

(***************************************************************************)
(* Natural numbers of any size.  TLC's integers are 32 bits wide and a     *)
(* file size of a petabyte is not, so a size is kept as the sequence of    *)
(* its base-1024 digits, least significant first, without leading zeros.   *)
(***************************************************************************)
Base == 1024

RECURSIVE Strip(_)
Strip(d) ==
    IF d = <<>> THEN <<>>
    ELSE IF d[Len(d)] = 0 THEN Strip(SubSeq(d, 1, Len(d) - 1))
    ELSE d

RECURSIVE ToDigits(_)
ToDigits(n) == IF n = 0 THEN <<>> ELSE <<n % Base>> \o ToDigits(n \div Base)

RECURSIVE BigAddC(_, _, _)
BigAddC(a, b, c) ==
    IF a = <<>> /\ b = <<>> THEN (IF c = 0 THEN <<>> ELSE <<c>>)
    ELSE LET x == IF a = <<>> THEN 0 ELSE Head(a)
             y == IF b = <<>> THEN 0 ELSE Head(b)
             t == x + y + c
         IN  <<t % Base>> \o BigAddC(IF a = <<>> THEN <<>> ELSE Tail(a),
                                     IF b = <<>> THEN <<>> ELSE Tail(b),
                                     t \div Base)

BigAdd(a, b) == Strip(BigAddC(a, b, 0))

RECURSIVE BigMulC(_, _, _)
BigMulC(a, m, c) ==
    IF a = <<>> THEN (IF c = 0 THEN <<>> ELSE <<c>>)
    ELSE LET t == Head(a) * m + c
         IN  <<t % Base>> \o BigMulC(Tail(a), m, t \div Base)

\* a * m for a small factor m
BigMul(a, m) == Strip(BigMulC(a, m, 0))

\* a * 1024^k
BigShift(a, k) == IF Strip(a) = <<>> THEN <<>> ELSE [i \in 1..k |-> 0] \o Strip(a)

RECURSIVE BigLeqN(_, _)
BigLeqN(a, b) ==
    IF Len(a) # Len(b) THEN Len(a) < Len(b)
    ELSE IF a = <<>> THEN TRUE
    ELSE IF a[Len(a)] # b[Len(b)] THEN a[Len(a)] < b[Len(b)]
    ELSE BigLeqN(SubSeq(a, 1, Len(a) - 1), SubSeq(b, 1, Len(b) - 1))

BigLeq(a, b) == BigLeqN(Strip(a), Strip(b))

(***************************************************************************)
(* format_file_size.  The loop variable size_bytes is the argument divided *)
(* by 1024.0 some number of times: the digits d and the number s of        *)
(* divisions done, of value sum d[i] * 1024^(i-1-s).  Division of a double *)
(* by a power of two is exact.                                             *)
(***************************************************************************)
Units == <<"B", "KB", "MB", "GB", "TB">>
LastUnit == "PB"

\* (a slip: size_bytes <= 1024.0)
Below1024Le(d, s) ==
    \/ \A i \in 1..Len(d) : i > s + 1 => d[i] = 0
    \/ Strip(d) = [i \in 1..(s + 2) |-> IF i = s + 2 THEN 1 ELSE 0]

\* size_bytes < 1024.0
Below1024(d, s) == \A i \in 1..Len(d) : i > s + 1 => d[i] = 0

\* the integer part of size_bytes
IntPart(d, s) == Strip(SubSeq(d, s + 1, Len(d)))

\* the fraction of size_bytes, as the digits after the point, last one first
FracPart(d, s) == SubSeq(d, 1, s)

\* f"{size_bytes:.1f}": the value rounded to one decimal, the nearest tenth
\* and on a tie the even one (the value is exact, and so is the rounding of
\* the float formatting).  The result is the integer part and the tenth.
Format1f(d, s) ==
    LET f     == FracPart(d, s)
        p     == BigMulC(f, 10, 0)               \* 10 * fraction, digit by digit
        fl    == IF Len(p) > s THEN p[s + 1] ELSE 0  \* floor(10 * fraction)
        top   == IF s > 0 THEN p[s] ELSE 0
        rest0 == \A i \in 1..(s - 1) : p[i] = 0
        half  == Base \div 2
        up    == \/ top > half
                 \/ top = half /\ ~rest0
                 \/ top = half /\ rest0 /\ fl % 2 = 1
        t     == IF up THEN fl + 1 ELSE fl
    IN  IF t = 10
        THEN [int |-> BigAdd(IntPart(d, s), <<1>>), tenth |-> 0]
        ELSE [int |-> IntPart(d, s), tenth |-> t]

RECURSIVE FormatLoop(_, _, _)
FormatLoop(d, s, u) ==
    IF u > Len(Units)
    THEN [num |-> Format1f(d, s), unit |-> LastUnit]
    ELSE IF Below1024(d, s)
         THEN [num |-> Format1f(d, s), unit |-> Units[u]]
         ELSE FormatLoop(d, s + 1, u + 1)

format_file_size(d) == FormatLoop(d, 0, 1)

(***************************************************************************)
(* The arguments format_file_size is called with: the sizes of section 8   *)
(* of the specification and of the unit boundaries, and every size         *)
(* m * 1024^z of up to MaxDigits base-1024 digits, m of up to five digits  *)
(* drawn from DigitVals.  A double holds these sizes exactly (five digits  *)
(* are 50 bits, its mantissa has 53), so that size_bytes / 1024.0 is the   *)
(* exact quotient.                                                         *)
(***************************************************************************)
MaxDigits == 7

DigitVals == {0, 1, 256, 768, 973, 1023}

MantissaDigits == 53 \div 10

Mantissas ==
    {m \in UNION {[1..n -> DigitVals] : n \in 0..MantissaDigits} : Strip(m) = m}

ExampleSizes == {ToDigits(10), ToDigits(2048), ToDigits(5000000),
                 ToDigits(1023), ToDigits(1024)}

SizeInputs ==
    ExampleSizes \cup
    {d \in {BigShift(m, z) : m \in Mantissas, z \in 0..MaxDigits} : Len(d) <= MaxDigits}

NoString == [num |-> [int |-> <<>>, tenth |-> 0], unit |-> ""]

IdleFormat == fmtPc = "idle" /\ fmtIn = <<>> /\ fmtOut = NoString

InitFormat == fmtPc = "call" /\ fmtIn \in SizeInputs /\ fmtOut = NoString

FormatCall ==
    /\ fmtPc = "call"
    /\ fmtPc' = "done"
    /\ fmtOut' = format_file_size(fmtIn)
    /\ UNCHANGED fmtIn
    /\ UNCHANGED notFmtVars

NextFormat == FormatCall

(***************************************************************************)
(* Exceptions.  A call returns a value or raises; an except clause names   *)
(* the classes it catches, and catches their subclasses.                   *)
(***************************************************************************)
OSErrorClasses == {"OSError", "FileNotFoundError", "PermissionError",
                   "IsADirectoryError", "NotADirectoryError", "FileExistsError"}

IsInstance(exc, classes) ==
    \/ exc \in classes
    \/ "OSError" \in classes /\ exc \in OSErrorClasses

Returns(v) == [exc |-> "", value |-> v]
Raises(e) == [exc |-> e, value |-> 0]

(***************************************************************************)
(* The directory tree create_summary_report walks.  A name is the sequence *)
(* of its characters, a directory the sequence of the names on the way     *)
(* from the root to it (the root is <<>>).                                 *)
(***************************************************************************)
NameA == <<"a", ".", "T">>
NameB == <<"b", ".", "t">>
NameC == <<"c">>
NameH == <<".", "h">>
DirS == <<"s">>
DirI == <<"i">>
DirG == <<".", "g">>

Root == <<>>

\* the directories of the tree: s, s/i, and the hidden .g and s/.g, and .g/i
Dirs == {Root, <<DirS>>, <<DirS, DirI>>, <<DirG>>, <<DirS, DirG>>, <<DirG, DirI>>}

File(d, n, z) == [dir |-> d, name |-> n, size |-> z]

\* the files a tree is made of: files of every size in the root, and one or
\* two in each of the other directories
FilePool ==
    {File(Root, n, z) : n \in {NameA, NameB, NameC}, z \in {0, 100, 300}}
    \cup {File(Root, NameH, 300), File(<<DirS>>, NameA, 100),
          File(<<DirS>>, NameA, 300), File(<<DirS, DirI>>, NameB, 300),
          File(<<DirG>>, NameA, 300), File(<<DirS, DirG>>, NameA, 300),
          File(<<DirG, DirI>>, NameA, 300)}

MaxFiles == 3

\* a directory holds one file of a name
Trees ==
    {t \in UNION {{ {f[i] : i \in 1..n} : f \in [1..n -> FilePool]} : n \in 0..MaxFiles} :
        \A f, g \in t : f.dir = g.dir /\ f.name = g.name => f = g}

\* every order of the elements of S: a directory listing is in no given order
Perms(S) ==
    {f \in [1..Cardinality(S) -> S] :
        \A i, j \in 1..Cardinality(S) : i # j => f[i] # f[j]}

SubDirs(d) == {e \in Dirs : Len(e) = Len(d) + 1 /\ SubSeq(e, 1, Len(d)) = d}

FilesIn(t, d) == {f \in t : f.dir = d}

\* name.startswith('.')
StartsWithDot(name) == Len(name) > 0 /\ name[1] = "."

\* str.lower, on the letters the names are made of
Lower(c) == IF c = "T" THEN "t" ELSE c

\* os.path.splitext(name)[1]: from the last dot on, unless only dots lead to it
SplitExt(name) ==
    LET dots == {i \in 1..Len(name) : name[i] = "."}
        last == CHOOSE i \in dots : \A j \in dots : j <= i
    IN  IF dots = {} THEN <<>>
        ELSE IF \A j \in 1..(last - 1) : name[j] = "." THEN <<>>
        ELSE SubSeq(name, last, Len(name))

NoExtension == <<"no_extension">>

\* os.path.splitext(file)[1].lower() or 'no_extension'
ExtOf(name) ==
    LET e == SplitExt(name)
    IN  IF e = <<>> THEN NoExtension ELSE [i \in 1..Len(e) |-> Lower(e[i])]

(***************************************************************************)
(* get_file_size: os.path.getsize, 0 when it raises an OSError.  ok tells  *)
(* whether the lookup succeeds (the file may be gone, or a broken link).   *)
(***************************************************************************)
\* (a slip: no try around os.path.getsize)
get_file_size_unguarded(f, ok) ==
    IF ok THEN Returns(f.size) ELSE Raises("FileNotFoundError")

get_file_size(f, ok) ==
    LET r == IF ok THEN Returns(f.size) ELSE Raises("FileNotFoundError")
    IN  IF r.exc # "" /\ IsInstance(r.exc, {"OSError"}) THEN Returns(0) ELSE r

(***************************************************************************)
(* create_summary_report.                                                  *)
(***************************************************************************)
NoFormatted == [num |-> [int |-> <<>>, tenth |-> 0], unit |-> ""]

InitStats ==
    [total_files |-> 0, total_size |-> 0, file_types |-> <<>>,
     largest_file |-> [name |-> <<>>, size |-> 0],
     has_formatted |-> FALSE, total_size_formatted |-> NoFormatted]

IdleSummary ==
    /\ sumPc = "idle" /\ tree = {} /\ stack = <<>> /\ curDir = Root
    /\ queue = <<>> /\ stats = InitStats /\ visited = <<>>
    /\ skipped = {} /\ statFailed = {}

InitSummary ==
    /\ sumPc = "start" /\ tree \in Trees /\ stack = <<>> /\ curDir = Root
    /\ queue = <<>> /\ stats = InitStats /\ visited = <<>>
    /\ skipped = {} /\ statFailed = {}

\* lines 96-105: the stats dictionary, and os.walk(directory) begun
SummaryStart ==
    /\ sumPc = "start"
    /\ sumPc' = "walk"
    /\ stats' = InitStats
    /\ stack' = <<Root>>
    /\ UNCHANGED <<tree, curDir, queue, visited, skipped, statFailed>>
    /\ UNCHANGED notSumVars

\* (a slip: the hidden directories are left in the list)
KeepAllDirs(dirs) == dirs

\* the dirs the loop body leaves in the list: [d for d in dirs if not d.startswith('.')]
KeepDirs(dirs) == SelectSeq(dirs, LAMBDA d : ~StartsWithDot(d[Len(d)]))

\* line 105, os.walk's next step with a listing that fails: os.walk passes the
\* OSError to its onerror, which is None, and goes on with the next directory
WalkSkip ==
    /\ sumPc = "walk" /\ queue = <<>> /\ stack # <<>>
    /\ stack' = Tail(stack)
    /\ skipped' = skipped \cup {Head(stack)}
    /\ UNCHANGED <<sumPc, tree, curDir, queue, stats, visited, statFailed>>
    /\ UNCHANGED notSumVars

\* lines 105-107: os.walk yields the next directory with its sub-directories and
\* files; the body prunes the hidden sub-directories, os.walk descends into the rest
WalkYield ==
    /\ sumPc = "walk" /\ queue = <<>> /\ stack # <<>>
    /\ \E dirs \in Perms(SubDirs(Head(stack))), files \in Perms(FilesIn(tree, Head(stack))) :
          /\ curDir' = Head(stack)
          /\ stack' = KeepDirs(dirs) \o Tail(stack)
          /\ queue' = files
    /\ UNCHANGED <<sumPc, tree, stats, visited, skipped, statFailed>>
    /\ UNCHANGED notSumVars

BumpType(ft, e) ==
    IF e \in DOMAIN ft THEN [ft EXCEPT ![e] = @ + 1] ELSE ft @@ (e :> 1)

\* lines 123-125
TrackLargest(largest, name, size) ==
    IF size > largest.size THEN [name |-> name, size |-> size] ELSE largest

\* lines 116-125
Tally(st, name, size) ==
    [st EXCEPT !.total_files = @ + 1,
               !.total_size = @ + size,
               !.file_types = BumpType(@, ExtOf(name)),
               !.largest_file = TrackLargest(@, name, size)]

\* lines 109-111: a hidden file is passed over
SkipHidden ==
    /\ sumPc = "walk" /\ queue # <<>>
    /\ StartsWithDot(Head(queue).name)
    /\ queue' = Tail(queue)
    /\ UNCHANGED <<sumPc, tree, stack, curDir, stats, visited, skipped, statFailed>>
    /\ UNCHANGED notSumVars

\* lines 109-128: one visible file; an OSError out of the body ends the walk (line 127)
VisitFile ==
    /\ sumPc = "walk" /\ queue # <<>>
    /\ ~StartsWithDot(Head(queue).name)
    /\ \E ok \in BOOLEAN :
          LET f == Head(queue)
              r == get_file_size(f, ok)
          IN  /\ statFailed' = IF ok THEN statFailed ELSE statFailed \cup {f}
              /\ IF r.exc = ""
                 THEN /\ stats' = Tally(stats, f.name, r.value)
                      /\ visited' = Append(visited, [name |-> f.name, size |-> r.value])
                      /\ queue' = Tail(queue)
                      /\ UNCHANGED <<sumPc, stack>>
                 ELSE /\ sumPc' = IF IsInstance(r.exc, {"OSError"}) THEN "walk" ELSE "raised"
                      /\ queue' = <<>>
                      /\ stack' = <<>>
                      /\ UNCHANGED <<stats, visited>>
    /\ UNCHANGED <<tree, curDir, skipped>>
    /\ UNCHANGED notSumVars

\* lines 130-131: the walk is over
SummaryReturn ==
    /\ sumPc = "walk" /\ queue = <<>> /\ stack = <<>>
    /\ sumPc' = "done"
    /\ stats' = [stats EXCEPT !.has_formatted = TRUE,
                               !.total_size_formatted =
                                   format_file_size(ToDigits(stats.total_size))]
    /\ UNCHANGED <<tree, stack, curDir, queue, visited, skipped, statFailed>>
    /\ UNCHANGED notSumVars

NextSummary ==
    \/ SummaryStart
    \/ WalkSkip
    \/ WalkYield
    \/ SkipHidden
    \/ VisitFile
    \/ SummaryReturn

(***************************************************************************)
(* calculate_file_hash.  hashlib is modelled by what a digest is a         *)
(* function of: the algorithm and the bytes the object was updated with,   *)
(* in order (two different messages have different digests).               *)
(***************************************************************************)
ChunkSize == 4096

\* the algorithm names: two that hashlib.new knows, one whose hexdigest needs a
\* length argument, and one that hashlib.new does not know
Algorithms == {"md5", "sha256", "shake_128", "nosuch"}
KnownAlgorithms == {"md5", "sha256", "shake_128"}
VariableLength == {"shake_128"}

\* what filepath names: a readable file, nothing, a directory, a file the
\* process may not open, a file whose read fails, or no path at all (a NUL in it)
PathKinds == {"file", "missing", "directory", "denied", "ioerror", "nul"}

MaxChunks == 2

ContentLengths == {0, 1, ChunkSize, ChunkSize + 1, MaxChunks * ChunkSize + 1}

Contents == {[i \in 1..n |-> (i + k) % 256] : n \in ContentLengths, k \in {0, 1}}

NoneResult == [kind |-> "None", alg |-> "", data |-> <<>>]
RaisedResult(e) == [kind |-> "raised", alg |-> e, data |-> <<>>]

\* hash_obj.hexdigest()
HexDigest(alg, data) == [kind |-> "hex", alg |-> alg, data |-> data]

\* (a slip: the object is made anew from each chunk)
UpdateReplacing(obj, chunk) == chunk

\* hash_obj.update(chunk)
Update(obj, chunk) == obj \o chunk

\* f.read(4096) at position pos
ReadChunk(content, pos) ==
    SubSeq(content, pos + 1, IF pos + ChunkSize < Len(content)
                             THEN pos + ChunkSize ELSE Len(content))

\* (a slip: except ValueError)
HashHandledValueError == {"ValueError"}

\* line 33: except (OSError, ValueError)
HashHandled == {"OSError", "ValueError"}

\* the call ends with exception e: None if line 33 catches it, else it propagates
HashFails(e) ==
    /\ hResults' = Append(hResults, IF IsInstance(e, HashHandled)
                                    THEN NoneResult ELSE RaisedResult(e))
    /\ hPc' = "ret"
    /\ hOpen' = FALSE

IdleHash ==
    /\ hPc = "idle" /\ hKind = "missing" /\ hContent = <<>> /\ hAlg = ""
    /\ hObj = <<>> /\ hPos = 0 /\ hOpen = FALSE /\ hResults = <<>>
    /\ hModified = FALSE

InitHash ==
    /\ hPc = "new"
    /\ hKind \in PathKinds
    /\ hContent \in (IF hKind \in {"file", "denied", "ioerror"} THEN Contents ELSE {<<>>})
    /\ hAlg \in Algorithms
    /\ hObj = <<>> /\ hPos = 0 /\ hOpen = FALSE /\ hResults = <<>>
    /\ hModified = FALSE

\* line 28: hashlib.new(algorithm)
HashNew ==
    /\ hPc = "new"
    /\ IF hAlg \in KnownAlgorithms
       THEN /\ hObj' = <<>>
            /\ hPc' = "open"
            /\ UNCHANGED <<hOpen, hResults>>
       ELSE /\ HashFails("ValueError")
            /\ UNCHANGED hObj
    /\ UNCHANGED <<hKind, hContent, hAlg, hPos, hModified>>
    /\ UNCHANGED notHashVars

\* open(filepath, 'rb')
OpenError(kind) ==
    CASE kind = "missing" -> "FileNotFoundError"
      [] kind = "directory" -> "IsADirectoryError"
      [] kind = "denied" -> "PermissionError"
      [] kind = "nul" -> "ValueError"
      [] OTHER -> ""

\* line 29
HashOpen ==
    /\ hPc = "open"
    /\ IF OpenError(hKind) = ""
       THEN /\ hOpen' = TRUE
            /\ hPos' = 0
            /\ hPc' = "read"
            /\ UNCHANGED hResults
       ELSE /\ HashFails(OpenError(hKind))
            /\ UNCHANGED hPos
    /\ UNCHANGED <<hKind, hContent, hAlg, hObj, hModified>>
    /\ UNCHANGED notHashVars

\* lines 30-31: one turn of the loop; b"" ends it and the with block closes f
HashRead ==
    /\ hPc = "read"
    /\ IF hKind = "ioerror"
       THEN /\ HashFails("OSError")
            /\ UNCHANGED <<hObj, hPos>>
       ELSE LET chunk == ReadChunk(hContent, hPos)
            IN  IF chunk = <<>>
                THEN /\ hPc' = "digest"
                     /\ hOpen' = FALSE
                     /\ UNCHANGED <<hObj, hPos, hResults>>
                ELSE /\ hObj' = Update(hObj, chunk)
                     /\ hPos' = hPos + Len(chunk)
                     /\ UNCHANGED <<hPc, hOpen, hResults>>
    /\ UNCHANGED <<hKind, hContent, hAlg, hModified>>
    /\ UNCHANGED notHashVars

\* line 32: hexdigest() of a variable-length digest lacks its length argument
HashDigest ==
    /\ hPc = "digest"
    /\ IF hAlg \in VariableLength
       THEN HashFails("TypeError")
       ELSE /\ hResults' = Append(hResults, HexDigest(hAlg, hObj))
            /\ hPc' = "ret"
            /\ UNCHANGED hOpen
    /\ UNCHANGED <<hKind, hContent, hAlg, hObj, hPos, hModified>>
    /\ UNCHANGED notHashVars

\* between two calls the file is written
FileWritten ==
    /\ hPc = "ret" /\ Len(hResults) = 1 /\ hKind \in {"file", "denied", "ioerror"}
    /\ hContent' \in Contents \ {hContent}
    /\ hPc' = "changed"
    /\ hModified' = TRUE
    /\ UNCHANGED <<hKind, hAlg, hObj, hPos, hOpen, hResults>>
    /\ UNCHANGED notHashVars

\* the function is called again, with the same arguments
HashAgain ==
    /\ hPc \in {"ret", "changed"} /\ Len(hResults) = 1
    /\ hPc' = "new"
    /\ UNCHANGED <<hKind, hContent, hAlg, hObj, hPos, hOpen, hResults, hModified>>
    /\ UNCHANGED notHashVars

NextHash ==
    \/ HashNew
    \/ HashOpen
    \/ HashRead
    \/ HashDigest
    \/ FileWritten
    \/ HashAgain

(***************************************************************************)
(* backup_file.                                                            *)
(***************************************************************************)
\* what backup_dir names: nothing yet, a directory, a directory the process may
\* not write in, a regular file, nothing under a parent the process may not
\* write in, or no path at all (a NUL in it)
BackupDirKinds == {"absent", "directory", "readonly", "file", "forbidden", "nul"}

SrcPaths == {<<"f">>, <<"d", "/", "f", ".", "t">>}

\* datetime.now()
Time(y, mo, d, h, mi, sec) == [year |-> y, month |-> mo, day |-> d,
                               hour |-> h, minute |-> mi, second |-> sec]

Times == {Time(2026, 1, 2, 3, 4, 5), Time(1999, 12, 31, 23, 59, 59)}

DigitChars == <<"0", "1", "2", "3", "4", "5", "6", "7", "8", "9">>

\* n in w decimal digits, zero-padded, as strftime writes a field
RECURSIVE Padded(_, _)
Padded(n, w) ==
    IF w = 0 THEN <<>>
    ELSE Padded(n \div 10, w - 1) \o <<DigitChars[(n % 10) + 1]>>

\* line 71: strftime('%Y%m%d_%H%M%S')
Strftime(t) ==
    Padded(t.year, 4) \o Padded(t.month, 2) \o Padded(t.day, 2) \o <<"_">>
    \o Padded(t.hour, 2) \o Padded(t.minute, 2) \o Padded(t.second, 2)

\* line 72: os.path.basename(filepath), what follows the last slash
Basename(path) ==
    LET slashes == {i \in 1..Len(path) : path[i] = "/"}
        last == IF slashes = {} THEN 0
                ELSE CHOOSE i \in slashes : \A j \in slashes : j <= i
    IN  SubSeq(path, last + 1, Len(path))

\* line 73: f"{filename}_{timestamp}.bak"
BackupName(path, t) ==
    Basename(path) \o <<"_">> \o Strftime(t) \o <<".", "b", "a", "k">>

\* (a slip: src.read(4096))
ReadOneChunk(data) == SubSeq(data, 1, IF Len(data) < ChunkSize THEN Len(data) ELSE ChunkSize)

\* line 76: src.read()
ReadAll(data) == data

\* (a slip: except FileNotFoundError)
BackupHandledNotFound == {"FileNotFoundError"}

\* line 78: except OSError
BackupHandled == {"OSError"}

\* the call ends with exception e: False if line 78 catches it, else it propagates
BackupFails(e) ==
    /\ bExc' = e
    /\ bResult' = IF IsInstance(e, BackupHandled) THEN "False" ELSE "raised"
    /\ bPc' = "ret"

IdleBackup ==
    /\ bPc = "idle" /\ bPath = <<>> /\ bSrcKind = "missing" /\ bSrcData = <<>>
    /\ bDir = "absent" /\ bFiles = <<>> /\ bNow = Time(0, 0, 0, 0, 0, 0)
    /\ bDiskFull = FALSE /\ bBakName = <<>> /\ bExc = "" /\ bResult = ""

\* backup_dir may hold a backup of the same name, made within the same second
InitBackup ==
    /\ bPc = "makedirs"
    /\ bPath \in SrcPaths
    /\ bSrcKind \in PathKinds
    /\ bSrcData \in (IF bSrcKind \in {"file", "denied", "ioerror"} THEN Contents ELSE {<<>>})
    /\ bDir \in BackupDirKinds
    /\ bNow \in Times
    /\ bFiles \in (IF bDir \in {"directory", "readonly"}
                   THEN {<<>>, BackupName(bPath, bNow) :> <<1, 2, 3>>} ELSE {<<>>})
    /\ bDiskFull \in BOOLEAN
    /\ bBakName = <<>> /\ bExc = "" /\ bResult = ""

\* os.makedirs(backup_dir, exist_ok=True)
MakedirsError(kind) ==
    CASE kind = "file" -> "FileExistsError"
      [] kind = "forbidden" -> "PermissionError"
      [] kind = "nul" -> "ValueError"
      [] OTHER -> ""

\* lines 70-73
BackupMakedirs ==
    /\ bPc = "makedirs"
    /\ IF MakedirsError(bDir) = ""
       THEN /\ bDir' = IF bDir = "absent" THEN "directory" ELSE bDir
            /\ bBakName' = BackupName(bPath, bNow)
            /\ bPc' = "open_src"
            /\ UNCHANGED <<bExc, bResult>>
       ELSE /\ BackupFails(MakedirsError(bDir))
            /\ UNCHANGED <<bDir, bBakName>>
    /\ UNCHANGED <<bPath, bSrcKind, bSrcData, bFiles, bNow, bDiskFull>>
    /\ UNCHANGED notBakVars

\* line 75: open(filepath, 'rb')
BackupOpenSrc ==
    /\ bPc = "open_src"
    /\ IF OpenError(bSrcKind) = ""
       THEN /\ bPc' = "open_dst"
            /\ UNCHANGED <<bExc, bResult>>
       ELSE BackupFails(OpenError(bSrcKind))
    /\ UNCHANGED <<bPath, bSrcKind, bSrcData, bDir, bFiles, bNow, bDiskFull, bBakName>>
    /\ UNCHANGED notBakVars

\* line 75: open(backup_path, 'wb') makes the file, or empties the one there is
BackupOpenDst ==
    /\ bPc = "open_dst"
    /\ IF bDir = "readonly"
       THEN /\ BackupFails("PermissionError")
            /\ UNCHANGED bFiles
       ELSE /\ bFiles' = (bBakName :> <<>>) @@ bFiles
            /\ bPc' = "copy"
            /\ UNCHANGED <<bExc, bResult>>
    /\ UNCHANGED <<bPath, bSrcKind, bSrcData, bDir, bNow, bDiskFull, bBakName>>
    /\ UNCHANGED notBakVars

\* lines 76-77: dst.write(src.read()); a write on a full disk leaves a part
BackupCopy ==
    /\ bPc = "copy"
    /\ IF bSrcKind = "ioerror"
       THEN /\ BackupFails("OSError")
            /\ UNCHANGED bFiles
       ELSE LET data == ReadAll(bSrcData)
            IN  IF bDiskFull /\ data # <<>>
                THEN /\ BackupFails("OSError")
                     /\ \E k \in {0, Len(data) \div 2} :
                           bFiles' = (bBakName :> SubSeq(data, 1, k)) @@ bFiles
                ELSE /\ bFiles' = (bBakName :> data) @@ bFiles
                     /\ bResult' = "True"
                     /\ bPc' = "ret"
                     /\ UNCHANGED bExc
    /\ UNCHANGED <<bPath, bSrcKind, bSrcData, bDir, bNow, bDiskFull, bBakName>>
    /\ UNCHANGED notBakVars

NextBackup ==
    \/ BackupMakedirs
    \/ BackupOpenSrc
    \/ BackupOpenDst
    \/ BackupCopy

(***************************************************************************)
(* setup_logger, and the logging of a message through the logger it        *)
(* returns.  logging.getLogger(name) returns the one logger of that name,  *)
(* made without handlers at its first use.                                 *)
(***************************************************************************)
LoggerNames == {"app_logger", "worker"}

\* logging.DEBUG, logging.INFO, logging.WARNING
Levels == {10, 20, 30}

Dates == {20261103, 20261104}

MaxSetups == 3
MaxLogs == 2

FileHandler(date) == [kind |-> "file", date |-> date]
StreamHandler == [kind |-> "console", date |-> 0]

IdleLogger ==
    /\ lLoggers = <<>> /\ lLogsDir = "idle" /\ lToday = 0 /\ lFiles = <<>>
    /\ lConsole = <<>> /\ lSetups = 0 /\ lLogged = <<>> /\ lRaised = FALSE

InitLogger ==
    /\ lLoggers = <<>>
    /\ lLogsDir \in {"absent", "directory", "file"}
    /\ lToday \in Dates
    /\ lFiles = <<>> /\ lConsole = <<>> /\ lSetups = 0 /\ lLogged = <<>>
    /\ lRaised = FALSE

\* logging.getLogger(name): the handlers the logger of that name has
HandlersOf(loggers, name) ==
    IF name \in DOMAIN loggers THEN loggers[name].handlers ELSE <<>>

\* lines 24-33: logger.addHandler(file_handler); logger.addHandler(console_handler)
AddHandlers(handlers, date) == handlers \o <<FileHandler(date), StreamHandler>>

\* lines 5-35; os.makedirs('logs', exist_ok=True) raises when logs is a file
SetupLogger ==
    /\ lSetups < MaxSetups
    /\ lSetups' = lSetups + 1
    /\ IF lLogsDir = "file"
       THEN /\ lRaised' = TRUE
            /\ UNCHANGED <<lLoggers, lLogsDir, lFiles>>
       ELSE \E name \in LoggerNames, level \in Levels :
              /\ lLogsDir' = "directory"
              /\ lLoggers' = (name :> [level |-> level,
                                        handlers |-> AddHandlers(HandlersOf(lLoggers, name), lToday)])
                              @@ lLoggers
              /\ lFiles' = IF lToday \in DOMAIN lFiles THEN lFiles ELSE (lToday :> <<>>) @@ lFiles
              /\ UNCHANGED lRaised
    /\ UNCHANGED <<lToday, lConsole, lLogged>>
    /\ UNCHANGED notLogVars

\* what the handlers in hs, from the i-th on, add to the files and the console
RECURSIVE Emit(_, _, _, _, _)
Emit(hs, i, files, console, rec) ==
    IF i > Len(hs) THEN [files |-> files, console |-> console]
    ELSE IF hs[i].kind = "file"
         THEN Emit(hs, i + 1, [files EXCEPT ![hs[i].date] = Append(@, rec)], console, rec)
         ELSE Emit(hs, i + 1, files, Append(console, rec), rec)

\* logger.log(level, msg) on a logger setup_logger returned: a record at or
\* above the logger's level goes to each of its handlers
LogMessage ==
    /\ Len(lLogged) < MaxLogs
    /\ \E name \in DOMAIN lLoggers, level \in Levels :
          LET rec == [id |-> Len(lLogged) + 1, name |-> name, level |-> level]
              enabled == level >= lLoggers[name].level
              out == IF enabled
                     THEN Emit(lLoggers[name].handlers, 1, lFiles, lConsole, rec)
                     ELSE [files |-> lFiles, console |-> lConsole]
          IN  /\ lLogged' = Append(lLogged, [id |-> rec.id, name |-> name,
                                             level |-> level, enabled |-> enabled])
              /\ lFiles' = out.files
              /\ lConsole' = out.console
    /\ UNCHANGED <<lLoggers, lLogsDir, lToday, lSetups, lRaised>>
    /\ UNCHANGED notLogVars

\* midnight passes
DayPasses ==
    /\ lToday = 20261103
    /\ lToday' = 20261104
    /\ UNCHANGED <<lLoggers, lLogsDir, lFiles, lConsole, lSetups, lLogged, lRaised>>
    /\ UNCHANGED notLogVars

NextLogger ==
    \/ SetupLogger
    \/ LogMessage
    \/ DayPasses

(***************************************************************************)
(* The specifications: one for each function, the others idle.             *)
(***************************************************************************)
StartFormat == InitFormat /\ IdleSummary /\ IdleHash /\ IdleBackup /\ IdleLogger

SpecFormat == StartFormat /\ [][NextFormat]_vars

StartSummary == InitSummary /\ IdleFormat /\ IdleHash /\ IdleBackup /\ IdleLogger

SpecSummary == StartSummary /\ [][NextSummary]_vars

StartHash == InitHash /\ IdleFormat /\ IdleSummary /\ IdleBackup /\ IdleLogger

SpecHash == StartHash /\ [][NextHash]_vars

StartBackup == InitBackup /\ IdleFormat /\ IdleSummary /\ IdleHash /\ IdleLogger

SpecBackup == StartBackup /\ [][NextBackup]_vars

StartLogger == InitLogger /\ IdleFormat /\ IdleSummary /\ IdleHash /\ IdleBackup

SpecLogger == StartLogger /\ [][NextLogger]_vars

(***************************************************************************)
(* The files create_summary_report is to count.                            *)
(***************************************************************************)
\* the files whose name does not start with a dot, under no directory whose does
VisibleFiles(t) ==
    {f \in t : /\ ~StartsWithDot(f.name)
               /\ \A i \in 1..Len(f.dir) : ~StartsWithDot(f.dir[i])}

\* the sum of the sizes of the files of S
RECURSIVE SumSizes(_)
SumSizes(S) ==
    IF S = {} THEN 0
    ELSE LET f == CHOOSE x \in S : TRUE IN f.size + SumSizes(S \ {f})

\* the visible files in directories the walk could reach: none of the directories
\* on the way from the root to the file failed to list
ReachedFiles(t) ==
    {f \in VisibleFiles(t) : \A k \in 0..Len(f.dir) : SubSeq(f.dir, 1, k) \notin skipped}

(***************************************************************************)
(* C1 as stated: for every directory tree, total_files is the number of    *)
(* visible files of the tree and total_size the sum of their sizes.        *)
(***************************************************************************)
C1_CountsEveryVisibleFile ==
    sumPc = "done" =>
        /\ stats.total_files = Cardinality(VisibleFiles(tree))
        /\ stats.total_size = SumSizes(VisibleFiles(tree))

(***************************************************************************)
(* C1 as amended: when every directory listing and every file size lookup  *)
(* of the walk succeeds, total_files is the number of visible files of the *)
(* tree and total_size the sum of their sizes; for an empty directory both *)
(* are 0 (also when its listing fails).                                    *)
(***************************************************************************)
C1_CountsWhenReadable ==
    sumPc = "done" =>
        /\ skipped = {} /\ statFailed = {} =>
              /\ stats.total_files = Cardinality(VisibleFiles(tree))
              /\ stats.total_size = SumSizes(VisibleFiles(tree))
        /\ tree = {} => stats.total_files = 0 /\ stats.total_size = 0

\* a walk without failures over a tree with a hidden file, a file in a hidden
\* directory and a file two directories down: only the last is counted
C1_Witness ==
    /\ sumPc = "done" /\ skipped = {} /\ statFailed = {}
    /\ tree = {File(Root, NameH, 300), File(<<DirG>>, NameA, 300),
               File(<<DirS, DirI>>, NameB, 300)}
    /\ stats.total_files = 1 /\ stats.total_size = 300

(***************************************************************************)
(* C2 as stated: for every sequence of visible files visited,              *)
(* largest_file.size is the maximum size among them and largest_file.name  *)
(* the name of the first visited file of that size.                        *)
(***************************************************************************)
MaxSize(seq) == CHOOSE z \in {seq[i].size : i \in 1..Len(seq)} :
                    \A i \in 1..Len(seq) : seq[i].size <= z

FirstOfSize(seq, z) ==
    seq[CHOOSE i \in 1..Len(seq) :
            seq[i].size = z /\ \A j \in 1..(i - 1) : seq[j].size # z]

C2_LargestIsFirstMaximum ==
    sumPc = "done" /\ visited # <<>> =>
        /\ stats.largest_file.size = MaxSize(visited)
        /\ stats.largest_file.name = FirstOfSize(visited, MaxSize(visited)).name

\* the part of C2 the code keeps: it holds when some visited file is not empty
C2_LargestWhenNotAllEmpty ==
    sumPc = "done" /\ visited # <<>> /\ MaxSize(visited) > 0 =>
        /\ stats.largest_file.size = MaxSize(visited)
        /\ stats.largest_file.name = FirstOfSize(visited, MaxSize(visited)).name

\* A(100), B(300), C(300) visited in that order: B is the largest
C2_Example ==
    sumPc = "done"
        /\ visited = <<[name |-> NameA, size |-> 100], [name |-> NameB, size |-> 300],
                       [name |-> NameC, size |-> 300]>>
        => stats.largest_file = [name |-> NameB, size |-> 300]

(***************************************************************************)
(* C9: create_summary_report never propagates an OS error.  Whatever       *)
(* listing (the root's or a sub-directory's) or size lookup fails, it      *)
(* goes on to return a summary: the files of the directories it could      *)
(* list are all counted, one whose size lookup failed with size 0, and     *)
(* total_size_formatted is present.                                        *)
(***************************************************************************)
C9_WalkErrorsSwallowed ==
    /\ sumPc # "raised"
    /\ sumPc # "done" => ENABLED NextSummary
    /\ sumPc = "done" =>
          /\ stats.has_formatted
          /\ stats.total_files = Cardinality(ReachedFiles(tree))
          /\ stats.total_size = SumSizes(ReachedFiles(tree) \ statFailed)
          /\ Root \in skipped => stats.total_files = 0 /\ stats.total_size = 0

\* the listing of s failed and so did a size lookup in the root, and the summary
\* holds the two files of the root, one of them with size 0
C9_Witness ==
    /\ sumPc = "done"
    /\ skipped = {<<DirS>>}
    /\ statFailed = {File(Root, NameA, 100)}
    /\ tree = {File(Root, NameA, 100), File(Root, NameB, 300), File(<<DirS>>, NameA, 300)}
    /\ stats.total_files = 2 /\ stats.total_size = 300 /\ stats.has_formatted

(***************************************************************************)
(* C4: format_file_size(n) names the k-th unit of B, KB, MB, GB, TB, PB,   *)
(* k being the number of divisions by 1024 that bring n below 1024, at     *)
(* most 5, and prints n / 1024^k (to the one decimal the format keeps:     *)
(* the tenth nearest to it); 10 is in B, 2048 in KB, 5000000 in MB, 1023   *)
(* in B and 1024 in KB.                                                    *)
(***************************************************************************)
AllUnits == <<"B", "KB", "MB", "GB", "TB", "PB">>

Min(a, b) == IF a < b THEN a ELSE b

\* the number of divisions by 1024 that bring n below 1024, capped
Divisions(d) == IF d = <<>> THEN 0 ELSE Min(Len(d) - 1, Len(AllUnits) - 1)

\* 2 * |10 * n - tenths * 1024^k| <= 1024^k, tenths being 10 * printed number
NearestTenth(d, k, num) ==
    LET tenths == BigAdd(BigMul(num.int, 10), ToDigits(num.tenth))
        a == BigMul(d, 20)
        b == BigShift(BigMul(tenths, 2), k)
        c == BigShift(<<1>>, k)
    IN  BigLeq(a, BigAdd(b, c)) /\ BigLeq(b, BigAdd(a, c))

Renders(n, int, tenth, unit) ==
    fmtIn = ToDigits(n) =>
        fmtOut = [num |-> [int |-> ToDigits(int), tenth |-> tenth], unit |-> unit]

C4_Scaling ==
    fmtPc = "done" =>
        /\ fmtOut.unit = AllUnits[Divisions(fmtIn) + 1]
        /\ fmtOut.num.tenth \in 0..9
        /\ NearestTenth(fmtIn, Divisions(fmtIn), fmtOut.num)
        /\ Renders(10, 10, 0, "B")
        /\ Renders(1023, 1023, 0, "B")
        /\ Renders(1024, 1, 0, "KB")
        /\ Renders(2048, 2, 0, "KB")
        /\ Renders(5000000, 4, 8, "MB")

\* a size beyond the last unit has been formatted: the unit stays PB
C4_Witness ==
    /\ fmtPc = "done"
    /\ Len(fmtIn) > Len(AllUnits)
    /\ fmtOut.unit = "PB"
    /\ fmtOut.num.int = <<0, 1>>

(***************************************************************************)
(* C3: calculate_file_hash of a path that does not exist returns None,     *)
(* whatever the algorithm argument, and does not raise.                    *)
(***************************************************************************)
C3_MissingFileGivesNone ==
    hKind = "missing" =>
        /\ \A i \in 1..Len(hResults) : hResults[i] = NoneResult
        /\ hPc # "ret" => ENABLED NextHash

\* the call for a missing file and the algorithm whose hexdigest would raise
C3_Witness ==
    /\ hKind = "missing" /\ hAlg = "shake_128"
    /\ hPc = "ret" /\ hResults = <<NoneResult, NoneResult>>

(***************************************************************************)
(* C7: two calls on a file whose content does not change between them     *)
(* return the same result, and a digest returned is that of the            *)
(* algorithm and the whole content of the file, however the file was read  *)
(* in chunks of 4096 bytes.                                                *)
(***************************************************************************)
C7_Deterministic ==
    /\ Len(hResults) = 2 /\ ~hModified => hResults[1] = hResults[2]
    /\ hPc = "ret" /\ hResults[Len(hResults)].kind = "hex" =>
          hResults[Len(hResults)] = HexDigest(hAlg, hContent)

\* a file of more than two chunks hashed twice, with one digest
C7_Witness ==
    /\ Len(hResults) = 2 /\ ~hModified
    /\ Len(hContent) > MaxChunks * ChunkSize
    /\ hResults[1].kind = "hex" /\ hResults[2] = hResults[1]

\* a file written between the calls, with two digests
C7_WitnessChanged ==
    /\ Len(hResults) = 2 /\ hModified
    /\ hResults[1].kind = "hex" /\ hResults[2].kind = "hex"
    /\ hResults[2] # hResults[1]

(***************************************************************************)
(* C8 as stated: for every path and every algorithm name the result of     *)
(* calculate_file_hash is a hex digest or None; nothing is raised.         *)
(***************************************************************************)
C8_NeverRaises ==
    \A i \in 1..Len(hResults) : hResults[i].kind \in {"hex", "None"}

(***************************************************************************)
(* C5: when backup_file returns True, backup_dir is a directory holding a  *)
(* file named <basename of path>_<YYYYMMDD_HHMMSS>.bak, the stamp being    *)
(* the time of the call, whose bytes are those of the source file; so for  *)
(* a source of size 0, where the backup has size 0.                        *)
(***************************************************************************)
IsDigit(c) == \E i \in 1..Len(DigitChars) : DigitChars[i] = c

DigitValue(c) == (CHOOSE i \in 1..Len(DigitChars) : DigitChars[i] = c) - 1

\* the number the digits of s at positions from..to spell
RECURSIVE Spelled(_, _, _)
Spelled(s, from, to) ==
    IF to < from THEN 0 ELSE 10 * Spelled(s, from, to - 1) + DigitValue(s[to])

\* name is base, "_", the stamp of t as YYYYMMDD_HHMMSS, ".bak"
WellFormedBackupName(name, base, t) ==
    LET n == Len(base)
    IN  /\ Len(name) = n + 20
        /\ SubSeq(name, 1, n) = base
        /\ name[n + 1] = "_" /\ name[n + 10] = "_"
        /\ \A i \in (n + 2)..(n + 16) : i # n + 10 => IsDigit(name[i])
        /\ SubSeq(name, n + 17, n + 20) = <<".", "b", "a", "k">>
        /\ Spelled(name, n + 2, n + 5) = t.year
        /\ Spelled(name, n + 6, n + 7) = t.month
        /\ Spelled(name, n + 8, n + 9) = t.day
        /\ Spelled(name, n + 11, n + 12) = t.hour
        /\ Spelled(name, n + 13, n + 14) = t.minute
        /\ Spelled(name, n + 15, n + 16) = t.second

\* what follows the last slash of the paths the calls are made with
BaseOf(path) == IF path = <<"f">> THEN <<"f">> ELSE <<"f", ".", "t">>

C5_BackupHoldsTheContent ==
    bPc = "ret" /\ bResult = "True" =>
        /\ bDir = "directory"
        /\ \E name \in DOMAIN bFiles :
              /\ WellFormedBackupName(name, BaseOf(bPath), bNow)
              /\ bFiles[name] = bSrcData
        /\ bSrcData = <<>> => \E name \in DOMAIN bFiles : Len(bFiles[name]) = 0

\* the backup of an empty file into a directory made by the call
C5_Witness ==
    /\ bPc = "ret" /\ bResult = "True"
    /\ bSrcData = <<>> /\ bPath = <<"d", "/", "f", ".", "t">>
    /\ bNow = Time(2026, 1, 2, 3, 4, 5)
    /\ DOMAIN bFiles = {<<"f", ".", "t", "_", "2", "0", "2", "6", "0", "1", "0", "2",
                          "_", "0", "3", "0", "4", "0", "5", ".", "b", "a", "k">>}

\* the backup of a file of more than two chunks over a backup of the same name
C5_WitnessLarge ==
    /\ bPc = "ret" /\ bResult = "True"
    /\ Len(bSrcData) > MaxChunks * ChunkSize
    /\ bFiles[bBakName] = bSrcData

(***************************************************************************)
(* C6: backup_file never propagates an OS error: when making the backup    *)
(* directory, opening or reading the source, or opening or writing the     *)
(* backup fails with an OS error the call returns False, and it returns    *)
(* True only when all these steps succeeded.                               *)
(***************************************************************************)
C6_OsErrorsGiveFalse ==
    /\ bPc # "ret" => ENABLED NextBackup
    /\ bPc = "ret" =>
          /\ bExc \in OSErrorClasses => bResult = "False"
          /\ bResult = "True" <=> bExc = ""
          /\ bResult = "raised" => bExc \notin OSErrorClasses

\* the write failed on a full disk: False, and a partial backup is left
C6_Witness ==
    /\ bPc = "ret" /\ bResult = "False" /\ bExc = "OSError"
    /\ bDiskFull /\ bSrcKind = "file"
    /\ bBakName \in DOMAIN bFiles /\ bFiles[bBakName] # bSrcData

(***************************************************************************)
(* C10 as stated: after one or more calls of setup_logger with a name,     *)
(* the logger of that name has exactly one file sink and exactly one       *)
(* console sink, so a message logged at or above its level is written      *)
(* exactly once to the log file and exactly once to the console.           *)
(***************************************************************************)
\* the number of handlers of a kind among hs
SinksOfKind(hs, kind) == Cardinality({i \in 1..Len(hs) : hs[i].kind = kind})

\* the lines of all the log files, and of the console, that carry message id
TimesInFiles(id) ==
    Cardinality({<<d, i>> \in (DOMAIN lFiles) \X (1..MaxLogs * MaxSetups) :
                    i <= Len(lFiles[d]) /\ lFiles[d][i].id = id})

TimesOnConsole(id) == Cardinality({i \in 1..Len(lConsole) : lConsole[i].id = id})

C10_OneSinkEachMessageOnce ==
    /\ \A name \in DOMAIN lLoggers :
          /\ SinksOfKind(lLoggers[name].handlers, "file") = 1
          /\ SinksOfKind(lLoggers[name].handlers, "console") = 1
    /\ \A i \in 1..Len(lLogged) :
          lLogged[i].enabled =>
              TimesInFiles(lLogged[i].id) = 1 /\ TimesOnConsole(lLogged[i].id) = 1

\* what does hold: a message goes to its logger's sinks once for each call of
\* setup_logger made with the logger's name before it was logged
C10_MessagesOncePerSetup ==
    \A i \in 1..Len(lLogged) :
        /\ TimesInFiles(lLogged[i].id) = TimesOnConsole(lLogged[i].id)
        /\ TimesInFiles(lLogged[i].id) <= lSetups
        /\ lLogged[i].enabled <=> TimesOnConsole(lLogged[i].id) >= 1

====
